---- MODULE Spec2Model ----
(***************************************************************************)
(* Rising Tide: the match engine of src/board.py over the geometry, the    *)
(* legality predicate and the flood of src/util.py.                        *)
(*                                                                         *)
(* The board is scaled down: BOARD_SIZE, the flood cap MaxHeight and the   *)
(* denominator of SINK_RATE are small, the code's formulas are kept.       *)
(* A round (Board.step) is followed through its positions: entry, one      *)
(* get_move call per living bot in index order, then the resolution        *)
(* (shuffle, apply, flood, eliminations, round counter, end of game).      *)
(* The log file is taken to be open (log_path is not None).                *)
(***************************************************************************)
EXTENDS Integers, Sequences, FiniteSets, TLC

\* ---------------------------------------------------------------- bounds
\* util.BOARD_SIZE is 18; the model's board is smaller.
BOARD_SIZE == 4
\* util.SINK_RATE is 1 / 100; the model's rate is 1 / SinkDen.  At least 2:
\* the water then needs more rounds to rise by one level than to cross one
\* ring of cells, as on the board of the code.
SinkDen == 2
\* The literal 8 of util.is_legal and of Board.running (highest terrain); at
\* least two above the border height 1, so that two moves fit on one cell.
MaxHeight == 3
\* Decision calls of one match that do anything but pass in time.
MaxActs == 2
\* Rounds a caller may still ask of step() beyond the flood cap.  At least
\* 2: the second of them is the first whose flood is above the highest level.
ExtraRounds == 2

\* ------------------------------------------------------------- constants
NumBots == 4
RingCap == 5
SurvivedScore == 800

Bots == 0 .. (NumBots - 1)

Min(a, b) == IF a <= b THEN a ELSE b

Pos == (0 .. (BOARD_SIZE - 1)) \X (0 .. (BOARD_SIZE - 1))

\* Python's None where a move is expected.
None == << >>

\* ------------------------------------------------------------- geometry
\* CITIES sits at offset 5 of 18 from each corner; the offset scales with
\* the board.
CityOff == (BOARD_SIZE - 1) \div 3

\* A mutant of CITIES: the cities listed the other way round the board.
CITIES_mirror ==
    [k \in Bots |->
        CASE k = 0 -> <<CityOff, CityOff>>
          [] k = 1 -> <<BOARD_SIZE - 1 - CityOff, CityOff>>
          [] k = 2 -> <<BOARD_SIZE - 1 - CityOff, BOARD_SIZE - 1 - CityOff>>
          [] k = 3 -> <<CityOff, BOARD_SIZE - 1 - CityOff>>]

CITIES ==
    [k \in Bots |->
        CASE k = 0 -> <<CityOff, CityOff>>
          [] k = 1 -> <<CityOff, BOARD_SIZE - 1 - CityOff>>
          [] k = 2 -> <<BOARD_SIZE - 1 - CityOff, BOARD_SIZE - 1 - CityOff>>
          [] k = 3 -> <<BOARD_SIZE - 1 - CityOff, CityOff>>]

CitySet == {CITIES[k] : k \in Bots}

\* Distance of a cell to the nearest border.
Ring(p) == Min(Min(p[1], p[2]), Min(BOARD_SIZE - 1 - p[1], BOARD_SIZE - 1 - p[2]))

\* A mutant of START_TERRAIN: the squares are set to min(i, 5), so that the
\* border starts at height 0.
START_TERRAIN_low ==
    [p \in Pos |->
        IF p \in CitySet
        THEN 0
        ELSE Min(Min(Ring(p), (BOARD_SIZE \div 2) - 1), RingCap)]

\* START_TERRAIN: 1 everywhere, then the square [i:-i, i:-i] is set to
\* min(i, 5) + 1 for i < BOARD_SIZE // 2 (the slice of i = 0 is empty), then
\* the cities are set to 0.
START_TERRAIN ==
    [p \in Pos |->
        IF p \in CitySet
        THEN 0
        ELSE Min(Min(Ring(p), (BOARD_SIZE \div 2) - 1), RingCap) + 1]

in_bounds(pos) ==
    /\ 0 <= pos[1] /\ pos[1] < BOARD_SIZE
    /\ 0 <= pos[2] /\ pos[2] < BOARD_SIZE

\* terrain[pos[0]][pos[1]], for indices below BOARD_SIZE: a negative index
\* counts from the end of the list.
Wrap(n) == IF n < 0 THEN n + BOARD_SIZE ELSE n

At(cells, pos) == cells[<<Wrap(pos[1]), Wrap(pos[2])>>]

\* A mutant of is_legal: in_bounds tests the upper bound only.
is_legal_wraps(cells, src, dst) ==
    IF src[1] >= BOARD_SIZE \/ src[2] >= BOARD_SIZE THEN FALSE
    ELSE IF dst[1] >= BOARD_SIZE \/ dst[2] >= BOARD_SIZE THEN FALSE
    ELSE IF At(cells, src) <= 0 THEN FALSE
    ELSE IF At(cells, dst) = -1 \/ At(cells, dst) = MaxHeight THEN FALSE
    ELSE src \notin CitySet /\ dst \notin CitySet

\* A mutant of is_legal: the cities are cells like the others.
is_legal_cities(cells, src, dst) ==
    IF ~in_bounds(src) \/ ~in_bounds(dst) THEN FALSE
    ELSE IF cells[src] <= 0 THEN FALSE
    ELSE cells[dst] # -1 /\ cells[dst] # MaxHeight

\* A mutant of is_legal: the source is refused only when it is sunk.
is_legal_from_zero(cells, src, dst) ==
    IF ~in_bounds(src) \/ ~in_bounds(dst) THEN FALSE
    ELSE IF cells[src] < 0 THEN FALSE
    ELSE IF cells[dst] = -1 \/ cells[dst] = MaxHeight THEN FALSE
    ELSE src \notin CitySet /\ dst \notin CitySet

\* A mutant of is_legal: a sunk destination is a cell like the others.
is_legal_into_water(cells, src, dst) ==
    IF ~in_bounds(src) \/ ~in_bounds(dst) THEN FALSE
    ELSE IF cells[src] <= 0 THEN FALSE
    ELSE IF cells[dst] = MaxHeight THEN FALSE
    ELSE src \notin CitySet /\ dst \notin CitySet

\* A mutant of is_legal: the destination must be one of the cells nearby.
is_legal_nearby(cells, src, dst) ==
    IF ~in_bounds(src) \/ ~in_bounds(dst) THEN FALSE
    ELSE IF At(cells, src) <= 0 THEN FALSE
    ELSE IF At(cells, dst) = -1 \/ At(cells, dst) = MaxHeight THEN FALSE
    ELSE src \notin CitySet /\ dst \notin CitySet
         /\ src # dst
         /\ src[1] - dst[1] \in -1 .. 1
         /\ src[2] - dst[2] \in -1 .. 1

is_legal(cells, src, dst) ==
    IF ~in_bounds(src) \/ ~in_bounds(dst) THEN FALSE
    ELSE IF At(cells, src) <= 0 THEN FALSE
    ELSE IF At(cells, dst) = -1 \/ At(cells, dst) = MaxHeight THEN FALSE
    ELSE src \notin CitySet /\ dst \notin CitySet

\* A mutant of Clip: the offsets are not clipped.
Clip_open(n) == n

\* np.clip(n, 0, BOARD_SIZE - 1)
Clip(n) == IF n < 0 THEN 0 ELSE IF n > BOARD_SIZE - 1 THEN BOARD_SIZE - 1 ELSE n

\* A mutant of nearby: the cell itself is not left out of its table entry.
nearby_self(pos) ==
    {<<Clip(pos[1] + di), Clip(pos[2] + dj)>> : di \in -1 .. 1, dj \in -1 .. 1}

\* NEARBY_TABLE[pos]: the nine offsets of np.mgrid[-1:2, -1:2] added to pos,
\* clipped to the board, pos itself left out.
nearby(pos) ==
    {<<Clip(pos[1] + di), Clip(pos[2] + dj)>> : di \in -1 .. 1, dj \in -1 .. 1}
        \ {pos}

\* allowed_moves: for every cell, the moves to its nearby cells that
\* is_legal accepts.
allowed_moves(cells) ==
    UNION {{<<src, dst>> : dst \in {d \in nearby(src) : is_legal(cells, src, d)}} :
              src \in Pos}

\* A mutant of RotPos: BOARD_SIZE - j for BOARD_SIZE - 1 - j.
RotPos_off(p) == <<BOARD_SIZE - p[2], p[1]>>

\* One turn of rotate_move's loop: (i, j) -> (BOARD_SIZE - 1 - j, i).
RotPos(p) == <<BOARD_SIZE - 1 - p[2], p[1]>>

RECURSIVE RotPosN(_, _)
RotPosN(n, p) == IF n <= 0 THEN p ELSE RotPosN(n - 1, RotPos(p))

rotate_move(plr, move) ==
    IF move = None THEN None
    ELSE <<RotPosN(plr, move[1]), RotPosN(plr, move[2])>>

\* A mutant of Rot90Pos: the grid is turned the other way round.
Rot90Pos_back(p) == <<BOARD_SIZE - 1 - p[2], p[1]>>

\* np.rot90(m, 1)[i][j] = m[j][BOARD_SIZE - 1 - i] (flip axis 1, transpose);
\* np.rot90(m, k) is k such turns.
Rot90Pos(p) == <<p[2], BOARD_SIZE - 1 - p[1]>>

RECURSIVE Rot90PosN(_, _)
Rot90PosN(k, p) == IF k <= 0 THEN p ELSE Rot90PosN(k - 1, Rot90Pos(p))

Rot90Cells(cells, k) == [p \in Pos |-> cells[Rot90PosN(k, p)]]

\* ------------------------------------------------------------ grid objects
\* A grid in memory: ref says whose storage it is ("board": the array of
\* Board.terrain, also through a numpy view; "copy": a list of lists of its
\* own), rows is len(grid), cells its content.
BoardArray(cells) == [ref |-> "board", rows |-> BOARD_SIZE, cells |-> cells]

\* A mutant of rot90: the grid is not turned.
rot90_still(grid, k) == grid

\* np.rot90 returns a view of its argument.
rot90(grid, k) == [grid EXCEPT !.cells = Rot90Cells(grid.cells, k)]

\* A mutant of copy_grid: the grid itself is handed on.
copy_grid_alias(grid) == grid

copy_grid(grid) ==
    [ref |-> "copy", rows |-> grid.rows, cells |-> [p \in Pos |-> grid.cells[p]]]

\* ------------------------------------------------------------------ flood
\* A mutant of Below: a cell at the level of the water is below it.
Below_reached(v, round) == v * SinkDen <= round

\* terrain < round_num * SINK_RATE, with SINK_RATE = 1 / SinkDen.
Below(v, round) == v * SinkDen < round

\* A mutant of NearSunk: the windows are crosses, the corners do not count.
NearSunk_cross(cells, p) ==
    \E di \in -1 .. 1, dj \in -1 .. 1 :
        /\ di = 0 \/ dj = 0
        /\ LET q == <<p[1] + di, p[2] + dj>>
           IN IF in_bounds(q) THEN cells[q] < 0 ELSE TRUE

\* np.any over the 3 x 3 windows of the padded sign mask: the cell or one of
\* its 8 neighbours is sunk, the padding around the board counting as sunk.
NearSunk(cells, p) ==
    \E di \in -1 .. 1, dj \in -1 .. 1 :
        LET q == <<p[1] + di, p[2] + dj>>
        IN IF in_bounds(q) THEN cells[q] < 0 ELSE TRUE

\* A mutant of flood: every cell below the level of the water is sunk.
flood_level(cells, round) ==
    [p \in Pos |-> IF Below(cells[p], round) THEN -1 ELSE cells[p]]

flood(cells, round) ==
    [p \in Pos |->
        IF Below(cells[p], round) /\ NearSunk(cells, p) THEN -1 ELSE cells[p]]

\* ------------------------------------------------------- decision calls
\* What one call of bot.func does, as get_move can tell:
\*   time   "fast" (within 0.1 s), "late" (returns or raises after 0.1 s),
\*          "never" (does not return);
\*   exc    "no", "Exception" (an instance of Exception), "BaseException"
\*          (SystemExit, KeyboardInterrupt: not an instance of Exception);
\*   ret    the returned value: None, a tuple of tuples of integers, or a
\*          lazy iterable (a generator) whose iteration raises an exception
\*          that is none of TypeError, ValueError, IndexError, AttributeError;
\*   edit   what the bot did to the grid it was handed: "keep" nothing,
\*          "forge" assigned 1 to the source and 0 to the destination cell of
\*          its move, "wreck" emptied the list (terrain.clear()).
NoneValue == [none |-> TRUE, lazy |-> FALSE, items |-> << >>]

Value(items) == [none |-> FALSE, lazy |-> FALSE, items |-> items]

LazyValue == [none |-> FALSE, lazy |-> TRUE, items |-> << >>]

Call(time, exc, ret, edit) == [time |-> time, exc |-> exc, ret |-> ret, edit |-> edit]

PassCall == Call("fast", "no", NoneValue, "keep")

\* Cells of a bot's own frame that the moves of the model name.
CellA == <<0, 0>>
CellB == <<0, 1>>
CellFar == <<0, BOARD_SIZE - 1>>
CellOut == <<-1, 0>>

\* Moves in the bot's frame: along the border, across the border (not between
\* neighbours), back, from the next bot's corner, from a cell onto itself,
\* onto a city, from outside the board.
MoveAB == <<CellA, CellB>>
MoveBFar == <<CellB, CellFar>>
MoveBA == <<CellB, CellA>>
MoveFarB == <<CellFar, CellB>>
MoveAA == <<CellA, CellA>>
MoveCity == <<CellA, CITIES[0]>>
MoveOut == <<CellOut, CellA>>

LocalMoves ==
    {MoveAB, MoveBFar, MoveBA, MoveFarB, MoveAA, MoveCity, MoveOut}

\* Values that do not unpack into two pairs: one pair, and a pair of one.
Junk == {<<CellA>>, <<<<0>>, CellB>>}

Calls ==
    {PassCall}
    \cup {Call("fast", "no", Value(m), "keep") : m \in LocalMoves}
    \cup {Call("fast", "no", Value(j), "keep") : j \in Junk}
    \cup {Call("fast", "no", Value(MoveAB), e) : e \in {"forge", "wreck"}}
    \cup {Call("fast", "no", Value(MoveOut), "wreck")}
    \cup {Call("late", "no", v, "keep") : v \in {NoneValue, Value(MoveAB)}}
    \cup {Call(t, "Exception", NoneValue, "keep") : t \in {"fast", "late"}}
    \cup {Call("fast", "BaseException", NoneValue, "keep")}
    \cup {Call("fast", "no", LazyValue, "keep")}
    \cup {Call("never", "no", NoneValue, "keep")}

\* (i0, j0), (i1, j1) = move_raw succeeds.  (The model's coordinates are
\* integers: the isinstance check that follows always passes.)
Unpacks(items) ==
    /\ Len(items) = 2
    /\ Len(items[1]) = 2
    /\ Len(items[2]) = 2

\* The grid object after the bot has run on it.
AgentEdit(grid, call) ==
    IF call.edit = "forge" /\ ~call.ret.none /\ Unpacks(call.ret.items)
    THEN [grid EXCEPT !.cells =
            [p \in Pos |->
                IF p = call.ret.items[1] THEN 1
                ELSE IF p = call.ret.items[2] THEN 0
                ELSE grid.cells[p]]]
    ELSE IF call.edit = "wreck" /\ grid.ref = "copy"
    THEN [grid EXCEPT !.rows = 0]
    ELSE grid

\* ---------------------------------------------------------------- get_move
\* What get_move does once bot.func has run: ctl is "return", "raise" (an
\* exception leaves get_move) or "hang" (bot.func has not returned), ret the
\* returned move, rec the kind of the record logged ("none": no record).
Outcome(ctl, ret, rec) == [ctl |-> ctl, ret |-> ret, rec |-> rec]

\* grid is the list handed to bot.func, as the bot left it.
get_move(bot_idx, grid, call) ==
    IF call.time = "never" THEN Outcome("hang", None, "none")
    ELSE IF call.exc = "BaseException" THEN Outcome("raise", None, "none")
    ELSE IF call.exc = "Exception" THEN Outcome("return", None, "fault")
    ELSE IF call.time = "late" THEN Outcome("return", None, "timeout")
    ELSE IF call.ret.none THEN Outcome("return", None, "none")
    ELSE IF call.ret.lazy THEN Outcome("raise", None, "none")
    ELSE IF ~Unpacks(call.ret.items) THEN Outcome("return", None, "malformed")
    ELSE LET src == call.ret.items[1]
             dst == call.ret.items[2]
         IN IF in_bounds(src) /\ in_bounds(dst) /\ grid.rows <= src[1]
            THEN Outcome("return", None, "malformed")
            ELSE IF ~is_legal(grid.cells, src, dst)
            THEN Outcome("return", None, "illegal")
            ELSE Outcome("return", rotate_move(4 - bot_idx, <<src, dst>>), "none")

\* ------------------------------------------------------------------ state
VARIABLES
    terrain,       \* Board.terrain
    round_num,     \* Board.round_num
    scores,        \* Board.scores
    logged_round,  \* Board.logged_round
    log,           \* the records the last operation wrote to the log file
    forfeits,      \* the forfeiture records written since step() was entered
    pc,            \* where the caller of the board stands: "idle" (outside
                   \* step), "collect" (in the comprehension of step),
                   \* "hung" (in a bot.func that does not return), "raised"
                   \* (step was left by an exception)
    idx,           \* the next living bot the comprehension asks, NumBots at its end
    moves,         \* the list moves of step, as far as it is built
    last,          \* the get_move call made last in this round
    acts,          \* decision calls so far that did anything but pass in time
    tampered,      \* some bot has written to the grid it was handed
    sunk_at,       \* for each bot, the round whose flood sank its city (-1: none)
    probe,         \* a call of one of util's functions on its own: the
                   \* arguments, the function called, what it returned
    run            \* a call of display.run_game: its arguments, where it
                   \* stands, what it returned

board_vars ==
    <<terrain, round_num, scores, logged_round, log, forfeits, pc, idx, moves,
      last, acts, tampered, sunk_at>>

vars == <<board_vars, probe, run>>

Record(kind, bot) == [kind |-> kind, bot |-> bot]

NoCall ==
    [bot |-> -1, call |-> PassCall, handed |-> START_TERRAIN,
     out |-> Outcome("return", None, "none")]

\* run_game has not been called: the board is stepped by a caller of its own.
NoRun == [mode |-> "off", pause_on_end |-> FALSE, pc |-> "off", ret |-> << >>]

\* No function of util has been called on its own.
NoProbe == [op |-> "none", grid |-> START_TERRAIN, move |-> None, out |-> None]

\* Board.alive
\* A mutant of IsAlive: the city's own value 0 taken for the sunk mark.
IsAlive_zero(cells, i) == cells[CITIES[i]] # 0

IsAlive(cells, i) == cells[CITIES[i]] # -1

alive_of(cells) == [i \in Bots |-> IsAlive(cells, i)]

alive == alive_of(terrain)

\* A mutant of is_running: one living bot is enough.
is_running_one(cells, round) ==
    /\ Cardinality({i \in Bots : IsAlive(cells, i)}) > 0
    /\ round < MaxHeight * SinkDen

\* Board.running: sum(alive) > 1 and round_num * SINK_RATE < 8
is_running(cells, round) ==
    /\ Cardinality({i \in Bots : IsAlive(cells, i)}) > 1
    /\ round < MaxHeight * SinkDen

running == is_running(terrain, round_num)

\* A mutant of NextAlive: the comprehension of step has no "if self.alive[i]".
NextAlive_all(cells, i) == IF i >= NumBots THEN NumBots ELSE i

\* The first living bot from index i on, NumBots when there is none.
RECURSIVE NextAlive(_, _)
NextAlive(cells, i) ==
    IF i >= NumBots THEN NumBots
    ELSE IF IsAlive(cells, i) THEN i
    ELSE NextAlive(cells, i + 1)

\* Board.__init__ (its "[GAME START]" line is the first record of round 0).
BoardInit ==
    /\ terrain = START_TERRAIN
    /\ round_num = 0
    /\ scores = [i \in Bots |-> -1]
    /\ logged_round = TRUE
    /\ log = <<Record("game_start", -1)>>
    /\ forfeits = 0
    /\ pc = "idle"
    /\ idx = NumBots
    /\ moves = << >>
    /\ last = NoCall
    /\ acts = 0
    /\ tampered = FALSE
    /\ sunk_at = [i \in Bots |-> -1]

Init == BoardInit /\ probe = NoProbe /\ run = NoRun

\* Entry of Board.step, whoever calls it: nothing in step asks running.
Step ==
    /\ pc = "idle"
    /\ round_num < MaxHeight * SinkDen + ExtraRounds
    /\ logged_round' = FALSE
    /\ log' = << >>
    /\ forfeits' = 0
    /\ pc' = "collect"
    /\ idx' = NextAlive(terrain, 0)
    /\ moves' = << >>
    /\ last' = NoCall
    /\ UNCHANGED <<terrain, round_num, scores, acts, tampered, sunk_at, probe, run>>

\* RTDisplayMain._tick and the loop of run_game: step() while running.
Tick ==
    /\ running
    /\ Step

\* A mutant of TerrainAfterCall: the bot was handed the board's own cells.
TerrainAfterCall_view(cells, bot_idx, grid) ==
    Rot90Cells(grid.cells, (4 - bot_idx) % 4)

\* The array of Board.terrain after a bot has run on the grid it was handed.
TerrainAfterCall(cells, bot_idx, grid) ==
    IF grid.ref = "board" THEN Rot90Cells(grid.cells, (4 - bot_idx) % 4) ELSE cells

\* One element of the comprehension of step: get_move(idx).  (handed, left,
\* out and after are each one value, named by a singleton set.)
GetMove ==
    /\ pc = "collect"
    /\ idx < NumBots
    /\ \E handed \in {copy_grid(rot90(BoardArray(terrain), idx))}, call \in Calls :
        /\ call = PassCall \/ acts < MaxActs
        /\ \E left \in {AgentEdit(handed, call)} :
            \E out \in {get_move(idx, left, call)},
               after \in {TerrainAfterCall(terrain, idx, left)} :
                /\ terrain' = after
                /\ last' = [bot |-> idx, call |-> call, handed |-> handed.cells,
                            out |-> out]
                /\ acts' = IF call = PassCall THEN acts ELSE acts + 1
                /\ tampered' = (tampered \/ left # handed)
                /\ log' = IF out.rec = "none" THEN << >>
                          ELSE <<Record(out.rec, idx)>>
                /\ forfeits' = IF out.rec = "none" THEN forfeits ELSE forfeits + 1
                /\ logged_round' = (logged_round \/ out.rec # "none")
                /\ pc' = CASE out.ctl = "return" -> "collect"
                           [] out.ctl = "raise" -> "raised"
                           [] out.ctl = "hang" -> "hung"
                /\ moves' = IF out.ctl = "return" THEN Append(moves, out.ret)
                            ELSE moves
                /\ idx' = IF out.ctl = "return" THEN NextAlive(after, idx + 1)
                          ELSE idx
    /\ UNCHANGED <<round_num, scores, sunk_at, probe, run>>

\* A mutant of apply_move: the move is applied without the re-check.
apply_move_unchecked(cells, move) ==
    IF move = None THEN cells
    ELSE LET less == [cells EXCEPT ![move[1]] = @ - 1]
         IN [less EXCEPT ![move[2]] = @ + 1]

\* A mutant of apply_move: the destination gains, the source does not lose.
apply_move_gain(cells, move) ==
    IF move = None THEN cells
    ELSE IF is_legal(cells, move[1], move[2])
    THEN [cells EXCEPT ![move[2]] = @ + 1]
    ELSE cells

\* for move in moves: skip None, apply what is_legal on the grid as it is now.
apply_move(cells, move) ==
    IF move = None THEN cells
    ELSE IF is_legal(cells, move[1], move[2])
    THEN LET less == [cells EXCEPT ![move[1]] = @ - 1]
         IN [less EXCEPT ![move[2]] = @ + 1]
    ELSE cells

RECURSIVE apply_moves(_, _)
apply_moves(cells, ms) ==
    IF ms = << >> THEN cells
    ELSE apply_moves(apply_move(cells, Head(ms)), Tail(ms))

\* The orders random.shuffle can leave a list of n elements in.
Orders ==
    [n \in 0 .. NumBots |->
        {f \in [1 .. n -> 1 .. n] : \A a, b \in 1 .. n : f[a] = f[b] => a = b}]

\* A mutant of eliminate: the round is counted before the loop.
eliminate_late(sc, cells, round) ==
    [i \in Bots |-> IF sc[i] = -1 /\ cells[CITIES[i]] = -1 THEN round + 1 ELSE sc[i]]

\* The elimination loop of step.
eliminate(sc, cells, round) ==
    [i \in Bots |-> IF sc[i] = -1 /\ cells[CITIES[i]] = -1 THEN round ELSE sc[i]]

\* A mutant of end_game: every score is overwritten.
end_game_all(sc) == [i \in Bots |-> SurvivedScore]

\* Board.end_game
end_game(sc) == [i \in Bots |-> IF sc[i] = -1 THEN SurvivedScore ELSE sc[i]]

\* A mutant of step_scores: end_game is called whether running or not.
step_scores_always(sc, cells, round) == end_game(eliminate(sc, cells, round))

\* The scores step leaves: the elimination loop, then end_game if not running.
step_scores(sc, cells, round) ==
    IF is_running(cells, round + 1)
    THEN eliminate(sc, cells, round)
    ELSE end_game(eliminate(sc, cells, round))

\* The records of the elimination loop and of end_game.
RECURSIVE EliminationLog(_, _, _)
EliminationLog(sc, cells, i) ==
    IF i >= NumBots THEN << >>
    ELSE (IF sc[i] = -1 /\ cells[CITIES[i]] = -1
          THEN <<Record("eliminated", i)>> ELSE << >>)
         \o EliminationLog(sc, cells, i + 1)

\* The list moves in the order random.shuffle has left it in.
Shuffled(ms, order) == [n \in 1 .. Len(ms) |-> ms[order[n]]]

\* The round's list of moves is complete and about to be shuffled.
Collected == pc = "collect" /\ idx = NumBots

\* The lists random.shuffle can leave.
ShuffledMoves == {Shuffled(moves, order) : order \in Orders[Len(moves)]}

\* The moves of the round's list: the loop of step passes over the None
\* entries, wherever the shuffle has put them.
Candidates == SelectSeq(moves, LAMBDA m : m # None)

\* The orders in which the shuffle can leave the moves of the round.
ShuffledCandidates ==
    {Shuffled(Candidates, order) : order \in Orders[Len(Candidates)]}

\* The rest of step once moves is built: shuffle, apply, flood, eliminate,
\* count the round, end the game.  (The loop meets the moves in one of the
\* orders of ShuffledCandidates; orders that leave the same grid are one
\* choice.)
Resolve ==
    /\ Collected
    /\ \E applied \in {apply_moves(terrain, ms) : ms \in ShuffledCandidates} :
        LET flooded == flood(applied, round_num)
            written == EliminationLog(scores, flooded, 0)
                       \o (IF is_running(flooded, round_num + 1) THEN << >>
                           ELSE <<Record("game_over", -1)>>)
        IN /\ terrain' = flooded
           /\ scores' = step_scores(scores, flooded, round_num)
           /\ sunk_at' = [i \in Bots |->
                            IF terrain[CITIES[i]] # -1 /\ flooded[CITIES[i]] = -1
                            THEN round_num ELSE sunk_at[i]]
           /\ log' = written
           /\ logged_round' = (logged_round \/ written # << >>)
    /\ round_num' = round_num + 1
    /\ pc' = "idle"
    /\ idx' = NumBots
    /\ moves' = << >>
    /\ last' = NoCall
    /\ UNCHANGED <<forfeits, acts, tampered, probe, run>>

Next == Tick \/ Step \/ GetMove \/ Resolve

Spec == Init /\ [][Next]_vars

\* ------------------------------------------- the functions of util alone
\* The functions of util called on their own, as a bot or a test calls them:
\* on a grid and a move chosen at the start, or on a grid alone (no move),
\* one call per behaviour.
\* Coordinates reach one cell beyond the board on every side.
Coords == (-1 .. BOARD_SIZE) \X (-1 .. BOARD_SIZE)

\* The start grid; the same with one corner sunk; with the border sunk; with
\* the border and the city of bot 1 sunk; the cities sunk amid empty cells;
\* every cell at the highest level; all the heights side by side.
ProbeGrids ==
    {START_TERRAIN,
     [p \in Pos |-> IF p = <<0, 0>> THEN -1 ELSE START_TERRAIN[p]],
     [p \in Pos |-> IF p \notin CitySet /\ Ring(p) = 0 THEN -1 ELSE START_TERRAIN[p]],
     [p \in Pos |-> IF p = CITIES[1] \/ (p \notin CitySet /\ Ring(p) = 0)
                    THEN -1 ELSE START_TERRAIN[p]],
     [p \in Pos |-> IF p \in CitySet THEN -1 ELSE 0],
     [p \in Pos |-> IF p \in CitySet THEN 0 ELSE MaxHeight],
     [p \in Pos |-> IF p \in CitySet THEN 0
                    ELSE ((p[1] + 2 * p[2]) % (MaxHeight + 2)) - 1]}

PureInit ==
    /\ BoardInit
    /\ probe \in {[op |-> "none", grid |-> g, move |-> m, out |-> None] :
                    g \in ProbeGrids, m \in (Coords \X Coords) \cup {None}}
    /\ run = NoRun

CallIsLegal ==
    /\ probe.op = "none"
    /\ probe.move # None
    /\ probe' = [probe EXCEPT
                    !.op = "is_legal",
                    !.out = is_legal(probe.grid, probe.move[1], probe.move[2])]
    /\ UNCHANGED <<board_vars, run>>

\* nearby(pos) for a cell of the board.
CallNearby ==
    /\ probe.op = "none"
    /\ probe.move # None
    /\ in_bounds(probe.move[1])
    /\ probe' = [probe EXCEPT !.op = "nearby", !.out = nearby(probe.move[1])]
    /\ UNCHANGED <<board_vars, run>>

CallAllowedMoves ==
    /\ probe.op = "none"
    /\ probe.move = None
    /\ probe' = [probe EXCEPT
                    !.op = "allowed_moves",
                    !.out = allowed_moves(probe.grid)]
    /\ UNCHANGED <<board_vars, run>>

\* rotate_move(plr, move), then the way back as get_move and its callers
\* take it, and four single turns.
CallRotateMove ==
    /\ probe.op = "none"
    /\ probe.move # None
    /\ \E plr \in 0 .. 3 :
        LET there == rotate_move(plr, probe.move)
            once == rotate_move(1, probe.move)
            twice == rotate_move(1, once)
            thrice == rotate_move(1, twice)
        IN probe' = [probe EXCEPT
                        !.op = "rotate_move",
                        !.out = [plr |-> plr,
                                 there |-> there,
                                 back |-> rotate_move((4 - plr) % 4, there),
                                 four |-> rotate_move(1, thrice)]]
    /\ UNCHANGED <<board_vars, run>>

\* The first lines and the last line of get_move for an honest bot k: the
\* grid is turned and copied, the bot's move is checked on the copy and
\* turned back.
CallGetMove ==
    /\ probe.op = "none"
    /\ probe.move # None
    /\ \E k \in Bots :
        LET snapshot == copy_grid(rot90(BoardArray(probe.grid), k)).cells
        IN probe' = [probe EXCEPT
                        !.op = "get_move",
                        !.out = [bot |-> k,
                                 snapshot |-> snapshot,
                                 legal |-> is_legal(snapshot, probe.move[1],
                                                    probe.move[2]),
                                 canon |-> rotate_move(4 - k, probe.move)]]
    /\ UNCHANGED <<board_vars, run>>

\* Two cells that touch by a side or a corner, or one cell.
Touch(a, b) == a[1] - b[1] \in -1 .. 1 /\ a[2] - b[2] \in -1 .. 1

\* The sunk cells of a grid that the water around the board reaches through
\* sunk cells: those of the border, then their sunk neighbours, and so on.
RECURSIVE SeaFrom(_, _)
SeaFrom(cells, sea) ==
    LET more == sea \cup {p \in Pos : cells[p] < 0 /\ \E q \in sea : Touch(p, q)}
    IN IF more = sea THEN sea ELSE SeaFrom(cells, more)

Sea(cells) == SeaFrom(cells, {p \in Pos : cells[p] < 0 /\ Ring(p) = 0})

\* The water that has reached the cells of sea reaches every sunk cell of
\* the grid.  (more is one value, named by a singleton set.)
RECURSIVE SeaReachesAll(_, _)
SeaReachesAll(cells, sea) ==
    \E more \in {sea \cup {p \in Pos : cells[p] < 0 /\ \E q \in sea : Touch(p, q)}} :
        IF more = sea
        THEN \A p \in Pos : cells[p] < 0 => p \in sea
        ELSE SeaReachesAll(cells, more)

\* Every sunk cell of the grid is one the water reaches: so it is in every
\* grid of a match, where cells are sunk by flood only, from the border on.
SeaConnected(cells) ==
    SeaReachesAll(cells, {p \in Pos : cells[p] < 0 /\ Ring(p) = 0})

\* The cell lies on the border or next to the water.
ReachedBySea(cells, p) == Ring(p) = 0 \/ \E q \in Sea(cells) : Touch(p, q)

\* The round numbers step() can hand to flood.
Rounds == 0 .. (MaxHeight * SinkDen + ExtraRounds)

\* flood(grid, r) on a grid as a match can have it, then flood again on the
\* result with the same round number.
CallFlood ==
    /\ probe.op = "none"
    /\ probe.move = None
    /\ SeaConnected(probe.grid)
    /\ \E r \in Rounds :
        LET once == flood(probe.grid, r)
        IN probe' = [probe EXCEPT
                        !.op = "flood",
                        !.out = [round |-> r, once |-> once,
                                 twice |-> flood(once, r)]]
    /\ UNCHANGED <<board_vars, run>>

PureNext ==
    \/ CallIsLegal
    \/ CallAllowedMoves
    \/ CallRotateMove
    \/ CallGetMove
    \/ CallFlood
    \/ CallNearby

PureSpec == PureInit /\ [][PureNext]_vars

\* ------------------------------------------------------------- run_game
\* display.run_game(bots, mode, pause_on_end): the variables of the board are
\* those of the Board that is stepped.  With mode "none" that is game_board,
\* stepped by run_game's own loop; with another mode it is the Board built
\* for RTDisplayMain, board.Board(bots), stepped by _tick, and game_board
\* stays as Board.__init__ has left it.
Modes == {"none", "terminal", "pygame"}

RunInit ==
    /\ BoardInit
    /\ probe = NoProbe
    /\ run \in {[mode |-> m, pause_on_end |-> b, pc |-> "loop", ret |-> << >>] :
                  m \in Modes, b \in BOOLEAN}

\* game_board.running and game_board.scores
GameBoardRunning ==
    IF run.mode = "none" THEN running ELSE is_running(START_TERRAIN, 0)

GameBoardScores ==
    IF run.mode = "none" THEN scores ELSE [i \in Bots |-> -1]

\* One turn of "while game_board.running: game_board.step()", or one
\* main_module.tick(), which reaches RTDisplayMain._tick: the entry of step.
RunTick ==
    /\ run.pc = "loop"
    /\ Tick

RunGetMove ==
    /\ run.pc = "loop"
    /\ GetMove

RunResolve ==
    /\ run.pc = "loop"
    /\ Resolve

\* The condition of the loop is false: return game_board.scores.
RunReturn ==
    /\ run.pc = "loop"
    /\ pc = "idle"
    /\ IF run.mode = "none" THEN ~GameBoardRunning
       ELSE ~(run.pause_on_end \/ GameBoardRunning)
    /\ run' = [run EXCEPT !.pc = "returned", !.ret = GameBoardScores]
    /\ UNCHANGED <<board_vars, probe>>

\* KeyboardInterrupt between two frames of the display: except, pass, return
\* game_board.scores.
RunInterrupt ==
    /\ run.pc = "loop"
    /\ run.mode # "none"
    /\ pc = "idle"
    /\ run' = [run EXCEPT !.pc = "returned", !.ret = GameBoardScores]
    /\ UNCHANGED <<board_vars, probe>>

RunNext == RunTick \/ RunGetMove \/ RunResolve \/ RunReturn \/ RunInterrupt

RunSpec == RunInit /\ [][RunNext]_vars

\* ----------------------------------------------------------------- claims
\* The grid handed to the bot asked last, and what it returned, unpacked.
LastAsked == last.bot >= 0

LastInTime == last.call.time = "fast" /\ last.call.exc = "no"

LastPairs == ~last.call.ret.none /\ Unpacks(last.call.ret.items)

LastLegalAsHanded ==
    /\ LastPairs
    /\ is_legal(last.handed, last.call.ret.items[1], last.call.ret.items[2])

Forfeitures == {"timeout", "fault", "malformed", "illegal"}

Cap == MaxHeight * SinkDen

\* C1: whatever the living bots' decision calls do in a round (a legal move,
\* a pass, a late return, an exception, a malformed value, an illegal move),
\* step() is not left by an exception.
C1_StepNeverRaises == pc # "raised"

\* C2: get_move changes neither the terrain nor the round counter nor the
\* scores, whatever the bot does; they change only in the part of step() that
\* follows the collection of all candidates.
C2_OnlyResolveWrites ==
    [][(terrain' # terrain \/ round_num' # round_num \/ scores' # scores)
          => (pc = "collect" /\ idx = NumBots /\ pc' = "idle")]_vars

\* C2 witness: a bot has written to the grid it was handed, its get_move call
\* is over and the round is still being collected.
C2_Witness == pc = "collect" /\ LastAsked /\ last.call.edit = "forge"

\* C3: get_move returns a move only for a call that returned in time, raised
\* nothing, returned two pairs of integers and was legal on the snapshot
\* handed over; a pass in time returns no move and writes no record; every
\* other call returns no move and writes exactly one forfeiture record.
C3_SandboxOutcomes ==
    LastAsked =>
        /\ last.out.ret # None => (LastInTime /\ LastLegalAsHanded)
        /\ (LastInTime /\ last.call.ret.none)
              => last.out = Outcome("return", None, "none") /\ log = << >>
        /\ ~(LastInTime /\ (last.call.ret.none \/ LastLegalAsHanded))
              => /\ last.out.ctl = "return"
                 /\ last.out.ret = None
                 /\ last.out.rec \in Forfeitures
                 /\ log = <<Record(last.out.rec, last.bot)>>
                 /\ (last.out.rec = "malformed") => ~LastPairs

\* C4: a decision call that exceeds the budget, one that never returns
\* included, yields no move and a timeout record, and the round goes on.
C4_LateCallForfeits ==
    (LastAsked /\ last.call.time # "fast")
        => /\ pc = "collect"
           /\ last.out = Outcome("return", None, "timeout")

\* C5: a returned move that is not legal on the snapshot as it was handed to
\* the bot yields an "illegal" record and no move, also when the bot has
\* written to its snapshot.
C5_IllegalAsHandedForfeits ==
    (LastAsked /\ LastInTime /\ LastPairs /\ ~LastLegalAsHanded)
        => last.out = Outcome("return", None, "illegal")

\* C6: a bot that writes to the grid it is handed changes neither the
\* board's grid nor what any bot is handed: each bot is handed the board's
\* grid of this round, rotated, and the board's grid is the same after the
\* call.
C6_SnapshotIsolated ==
    (pc # "idle" /\ LastAsked) => last.handed = Rot90Cells(terrain, last.bot)

\* C6 witness: after some bot has written to its grid, another call has been
\* handed a grid and has left it alone.
C6_Witness ==
    /\ tampered
    /\ pc = "collect"
    /\ LastAsked
    /\ last.call.edit = "keep"
    /\ last.call # PassCall

\* C7: step() called when the match is not running changes neither the grid
\* nor the round counter nor the scores.
C7_StepAtTerminalIsNoOp ==
    [][~running => UNCHANGED <<terrain, round_num, scores>>]_vars

\* C8: once running is false it stays false whatever step() calls follow; a
\* bot that is not alive stays so and the round counter never decreases.
C8_TerminalAbsorbing ==
    [][/\ ~running => ~running'
       /\ \A i \in Bots : ~alive[i] => ~alive'[i]
       /\ round_num' >= round_num]_vars

\* C8 witness: a round has been processed after the match had ended.
C8_Witness == pc = "idle" /\ ~running /\ round_num > Cap

C10_FinalScores ==
    /\ [](running => \A i \in Bots : scores[i] # SurvivedScore)
    /\ [][(running /\ ~running') =>
            \A i \in Bots :
                IF alive'[i] THEN scores'[i] = SurvivedScore
                ELSE sunk_at'[i] >= 0 /\ scores'[i] = sunk_at'[i]]_vars

\* C10 witness: the match has ended with one city standing and three sunk.
C10_Witness ==
    /\ pc = "idle"
    /\ ~running
    /\ Cardinality({i \in Bots : alive[i]}) = 1
    /\ \A i \in Bots :
        IF alive[i] THEN scores[i] = SurvivedScore
        ELSE scores[i] = sunk_at[i] /\ scores[i] < Cap

\* C11: in every step, a city the flood of that step sinks gets the round
\* that step processed as its bot's score, and the score of a bot whose city
\* is already sunk does not change.
C11_EliminationRecordedOnce ==
    [][\A i \in Bots :
          /\ (terrain[CITIES[i]] # -1 /\ terrain'[CITIES[i]] = -1)
                => scores'[i] = round_num
          /\ terrain[CITIES[i]] = -1 => scores'[i] = scores[i]]_vars

\* The moves of the list ms that the loop of step applies to cells: those
\* that util.is_legal accepts on the grid as the earlier ones left it.
RECURSIVE AppliedMoves(_, _)
AppliedMoves(cells, ms) ==
    IF ms = << >> THEN << >>
    ELSE IF Head(ms) # None /\ is_legal(cells, Head(ms)[1], Head(ms)[2])
    THEN <<Head(ms)>> \o AppliedMoves(apply_move(cells, Head(ms)), Tail(ms))
    ELSE AppliedMoves(cells, Tail(ms))

\* C12: when two moves of a round have the same destination, then in
\* whatever order the round is resolved exactly one move to that destination
\* is applied and the destination ends exactly 1 higher.
C12_SameDestinationOneWins ==
    Collected =>
        \A ms \in ShuffledMoves :
            \A a, b \in 1 .. Len(ms) :
                (a < b /\ ms[a] # None /\ ms[b] # None /\ ms[a][2] = ms[b][2])
                    => LET dst == ms[a][2]
                           done == AppliedMoves(terrain, ms)
                       IN /\ Cardinality({n \in 1 .. Len(done) : done[n][2] = dst}) = 1
                          /\ apply_moves(terrain, ms)[dst] = terrain[dst] + 1

\* The grid after the first k moves of the list ms have been through the loop.
GridAfter(ms, k) == apply_moves(terrain, SubSeq(ms, 1, k))

\* The k-th move of ms passes the re-check of the loop.
Rechecked(ms, k) ==
    ms[k] # None /\ is_legal(GridAfter(ms, k - 1), ms[k][1], ms[k][2])

\* C13 (the state part): in whatever order the round's moves are gone through, a move that is
\* not legal on the grid as the earlier moves of the round left it leaves
\* the grid as it is, and a move that changes the grid is legal on the grid
\* right before it: its source is above 0, its destination neither sunk nor
\* at the highest level, neither is a city.
C13_Rechecked ==
    Collected =>
        \A ms \in ShuffledCandidates :
            \A k \in 1 .. Len(ms) :
                LET before == GridAfter(ms, k - 1)
                    after == GridAfter(ms, k)
                IN /\ ~Rechecked(ms, k) => after = before
                   /\ after # before =>
                        /\ before[ms[k][1]] > 0
                        /\ before[ms[k][2]] \notin {-1, MaxHeight}
                        /\ ms[k][1] \notin CitySet
                        /\ ms[k][2] \notin CitySet

\* C13: the above in every state, and the resolution of a round writes no
\* forfeiture record.
C13_RecheckedBeforeApplied ==
    /\ []C13_Rechecked
    /\ [][Collected => /\ forfeits' = forfeits
                       /\ \A n \in 1 .. Len(log') :
                            log'[n].kind \notin Forfeitures]_vars

\* Some move that get_move accepted on the grid of the round's start is
\* refused in the loop because of an earlier move of the same round.
C13_Witness ==
    /\ Collected
    /\ ~tampered
    /\ \E ms \in ShuffledCandidates :
        \E k \in 1 .. Len(ms) :
            /\ ms[k] # None
            /\ is_legal(terrain, ms[k][1], ms[k][2])
            /\ ~Rechecked(ms, k)

\* The grid before differs from the grid after in the two cells of the move
\* only: the source is 1 lower, the destination 1 higher.
MovedOne(before, after, move) ==
    /\ after[move[1]] = before[move[1]] - 1
    /\ after[move[2]] = before[move[2]] + 1
    /\ \A p \in Pos \ {move[1], move[2]} : after[p] = before[p]

\* C14 as stated: in whatever order the round's moves are gone through, each
\* applied move lowers its source by exactly 1, raises its destination by
\* exactly 1 and changes no other cell, and a move that is not applied
\* changes nothing.
C14_AppliedMoveIsAPair ==
    Collected =>
        \A ms \in ShuffledCandidates :
            \A k \in 1 .. Len(ms) :
                IF Rechecked(ms, k)
                THEN MovedOne(GridAfter(ms, k - 1), GridAfter(ms, k), ms[k])
                ELSE GridAfter(ms, k) = GridAfter(ms, k - 1)

\* C14 as amended: the same for the applied moves whose source and
\* destination differ; an applied move from a cell onto itself leaves the
\* grid as it is.
C14_AppliedMoveIsAPairOrNothing ==
    Collected =>
        \A ms \in ShuffledCandidates :
            \A k \in 1 .. Len(ms) :
                IF Rechecked(ms, k) /\ ms[k][1] # ms[k][2]
                THEN MovedOne(GridAfter(ms, k - 1), GridAfter(ms, k), ms[k])
                ELSE GridAfter(ms, k) = GridAfter(ms, k - 1)

\* A round in which a move between two cells and a move from a cell onto
\* itself are both applied.
C14_Witness ==
    /\ Collected
    /\ \E ms \in ShuffledCandidates :
        \E j, k \in 1 .. Len(ms) :
            /\ Rechecked(ms, j) /\ ms[j][1] # ms[j][2]
            /\ Rechecked(ms, k) /\ ms[k][1] = ms[k][2]

C17_CitiesUntouched ==
    /\ \A i \in Bots :
        terrain[CITIES[i]] = IF sunk_at[i] >= 0 THEN -1 ELSE 0
    /\ Collected =>
        \A ms \in ShuffledCandidates :
            LET done == AppliedMoves(terrain, ms)
                moved == apply_moves(terrain, ms)
            IN /\ \A n \in 1 .. Len(done) :
                    done[n][1] \notin CitySet /\ done[n][2] \notin CitySet
               /\ \A c \in CitySet : moved[c] = terrain[c]

\* A bot has proposed a move onto its city, which stands, while the city of
\* another bot was sunk in an earlier round.
C17_Witness ==
    /\ pc = "collect"
    /\ LastAsked
    /\ last.call.ret = Value(MoveCity)
    /\ terrain[CITIES[last.bot]] = 0
    /\ \E i \in Bots : sunk_at[i] >= 0 /\ sunk_at[i] < round_num

\* What the spec's isLegal asks of a move on a grid.
LegalByRule(cells, src, dst) ==
    /\ in_bounds(src) /\ in_bounds(dst)
    /\ src \notin CitySet /\ dst \notin CitySet
    /\ cells[src] > 0
    /\ cells[dst] # -1 /\ cells[dst] # MaxHeight

\* C18: is_legal(grid, src, dst) is true exactly when src and dst are in
\* bounds, neither is a city, grid[src] > 0 and grid[dst] is neither -1 nor
\* the highest level; it is false for every move with a coordinate out of
\* bounds (a negative one does not reach the cell it would index from the
\* end) and for every move from or onto a city.
C18_IsLegalIff ==
    probe.op = "is_legal" =>
        LET src == probe.move[1]
            dst == probe.move[2]
        IN /\ probe.out <=> LegalByRule(probe.grid, src, dst)
           /\ (~in_bounds(src) \/ ~in_bounds(dst)) => ~probe.out
           /\ (src \in CitySet \/ dst \in CitySet) => ~probe.out

\* is_legal has refused a move whose source has a negative coordinate and
\* which, indexed from the end of the lists, would have been accepted.
C18_Witness ==
    /\ probe.op = "is_legal"
    /\ probe.move[1][1] = -1
    /\ probe.move[1][2] \in 0 .. (BOARD_SIZE - 1)
    /\ in_bounds(probe.move[2])
    /\ LegalByRule(probe.grid,
                   <<BOARD_SIZE - 1, probe.move[1][2]>>, probe.move[2])
    /\ probe.out = FALSE

\* Two different cells that touch by a side or a corner.
Neighbours(a, b) ==
    /\ a # b
    /\ a[1] - b[1] \in -1 .. 1
    /\ a[2] - b[2] \in -1 .. 1

C20_RotationOrderFour ==
    (/\ probe.op = "rotate_move"
     /\ in_bounds(probe.move[1])
     /\ in_bounds(probe.move[2]))
        => /\ probe.out.back = probe.move
           /\ probe.out.four = probe.move
           /\ in_bounds(probe.out.there[1])
           /\ in_bounds(probe.out.there[2])

\* A move in bounds has been turned three times to another move and came
\* back by one more turn.
C20_Witness ==
    /\ probe.op = "rotate_move"
    /\ probe.out.plr = 3
    /\ in_bounds(probe.move[1])
    /\ in_bounds(probe.move[2])
    /\ probe.out.there # probe.move
    /\ rotate_move(1, probe.out.there) = probe.move

\* C21: for every bot k, every grid and every move m whose cells are on the
\* board, the two cells m names in the grid turned for bot k hold what the
\* two cells of rotate_move(4 - k, m) hold in the board's grid; and for every
\* move, on the board or not, m is legal on the turned grid iff the move
\* turned back is legal on the board's grid.
C21_MoveRotationInvertsGridRotation ==
    probe.op = "get_move" =>
        LET m == probe.move
            back == probe.out.canon
        IN /\ (in_bounds(m[1]) /\ in_bounds(m[2]))
                => /\ in_bounds(back[1]) /\ in_bounds(back[2])
                   /\ probe.out.snapshot[m[1]] = probe.grid[back[1]]
                   /\ probe.out.snapshot[m[2]] = probe.grid[back[2]]
           /\ probe.out.legal <=> is_legal(probe.grid, back[1], back[2])

\* A move is legal on the grid turned for bot 1 and, taken as it is, not
\* legal on the board's grid; turned back it names other cells.
C21_Witness ==
    /\ probe.op = "get_move"
    /\ probe.out.bot = 1
    /\ probe.out.legal
    /\ ~is_legal(probe.grid, probe.move[1], probe.move[2])
    /\ probe.out.canon # probe.move

\* C22: in the grid turned for bot k, the cell at the place of city 0 is the
\* board's cell of bot k's own city, and the cells that show a city of the
\* board are, in every frame, the four places of CITIES.
C22_OwnCityAtCityZero ==
    probe.op = "get_move" =>
        LET k == probe.out.bot
        IN /\ Rot90PosN(k, CITIES[0]) = CITIES[k]
           /\ probe.out.snapshot[CITIES[0]] = probe.grid[CITIES[k]]
           /\ {p \in Pos : Rot90PosN(k, p) \in CitySet} = CitySet
           /\ \A p \in Pos :
                p \in CitySet
                    => \E i \in Bots : probe.out.snapshot[p] = probe.grid[CITIES[i]]

\* The grid turned for bot 1 shows a sunk city at the place of city 0 while
\* city 0 of the board stands.
C22_Witness ==
    /\ probe.op = "get_move"
    /\ probe.out.bot = 1
    /\ probe.out.snapshot[CITIES[0]] = -1
    /\ probe.grid[CITIES[0]] = 0
    /\ probe.grid[CITIES[1]] = -1

C24_FloodIdempotent ==
    probe.op = "flood" => probe.out.twice = probe.out.once

C25_SunkStaysSunk ==
    /\ [](Collected =>
            \A applied \in {apply_moves(terrain, ms) : ms \in ShuffledCandidates} :
                \A flooded \in {flood(applied, round_num)} :
                    \A p \in Pos :
                        /\ terrain[p] = -1 => applied[p] = -1
                        /\ applied[p] = -1 => flooded[p] = -1)
    /\ [][\A p \in Pos : terrain[p] = -1 => terrain'[p] = -1]_vars

\* A round is about to be resolved one of whose moves has a sunk cell as its
\* destination, while cells of the border still stand.
C25_Witness ==
    /\ Collected
    /\ \E n \in 1 .. Len(Candidates) : terrain[Candidates[n][2]] = -1
    /\ \E p \in Pos : Ring(p) = 0 /\ terrain[p] > 0

\* The round in which a match of passing bots ends: the water needs
\* SinkDen rounds per level and one round per ring of cells; the ring
\* around the cities has the height CityOff and sinks in round
\* CityOff * SinkDen + 1, the cities (height 0) in the round after.
PassSinkRound == CityOff * SinkDen + 2

\* C27 as stated: with four bots that always pass, the match becomes
\* Terminal only when the round counter reaches the cap MaxHeight / SINK_RATE.
C27_PassMatchRunsToCap ==
    [][(acts' = 0 /\ running /\ ~running') => round_num' = Cap]_vars

\* C27 as amended: with four bots that always pass, the match becomes
\* Terminal when the water, having crossed the rings around them, sinks the
\* four cities in one round, PassSinkRound, below the cap: the round counter
\* is then PassSinkRound + 1, every score is PassSinkRound and none is 800.
C27_PassMatchEndsByFlood ==
    [][(acts' = 0 /\ running /\ ~running')
          => /\ round_num = PassSinkRound
             /\ round_num' = PassSinkRound + 1
             /\ round_num' < Cap
             /\ \A i \in Bots :
                  /\ alive[i] /\ ~alive'[i]
                  /\ scores'[i] = PassSinkRound
                  /\ scores'[i] # SurvivedScore]_vars

\* A match in which every decision call was a pass in time has ended.
C27_Witness ==
    /\ pc = "idle"
    /\ acts = 0
    /\ ~running
    /\ round_num = PassSinkRound + 1
    /\ \A i \in Bots : scores[i] = PassSinkRound

\* C28: in every mode, what run_game returns are the final scores of the
\* match that was run: the board that was stepped is not running, the
\* returned list is its list of scores, and each entry is 800 or the round
\* that sank the bot's city, never -1.
C28_RunGameReturnsFinalScores ==
    run.pc = "returned" =>
        /\ ~running
        /\ run.ret = scores
        /\ \A i \in Bots :
            /\ run.ret[i] # -1
            /\ run.ret[i] = SurvivedScore \/ run.ret[i] = sunk_at[i]

\* C29: the round counter changes only in the resolution of a round, which
\* comes after the round's collection, and then by exactly 1; a step
\* entered with the counter at r applies the round's moves in some order,
\* floods the result with round number r, gives every bot eliminated in it
\* the score r, and only then sets the counter to r + 1, which is the value
\* the end of the match is decided on.
C29_StepOrder ==
    [][/\ round_num' \in {round_num, round_num + 1}
       /\ round_num' # round_num =>
            /\ Collected
            /\ pc' = "idle"
            /\ \E ms \in ShuffledCandidates :
                terrain' = flood(apply_moves(terrain, ms), round_num)
            /\ \A i \in Bots :
                (scores[i] = -1 /\ terrain'[CITIES[i]] = -1)
                    => scores'[i] = round_num
            /\ (\E i \in Bots : scores'[i] = SurvivedScore)
                    => ~is_running(terrain', round_num + 1)
       /\ (pc' = "collect") => (round_num' = round_num /\ terrain' = terrain)]_vars

\* A step has applied a move, its flood has sunk a city while another
\* stands, and the sunk city's bot has the round of that step as its score.
C29_Witness ==
    /\ pc = "idle"
    /\ round_num > 0
    /\ \E i, j \in Bots :
        /\ sunk_at[i] = round_num - 1
        /\ scores[i] = round_num - 1
        /\ alive[j]
    /\ \E p \in Pos \ CitySet : terrain[p] > START_TERRAIN[p]

\* The board's grid as bot k's turned grid shows it.
Unturned(cells, k) == Rot90Cells(cells, (4 - k) % 4)

\* C30: every bot asked in a round is handed the board's grid of the
\* round's start turned by its own index: the grid does not change while
\* the round is collected, the grid handed to a bot is the board's grid
\* turned by its index, turned back it is the grid the bot asked before it
\* was handed, and the grid changes only once all the candidates are
\* collected.
C30_SamePreRoundGrid ==
    [][/\ (pc = "idle" /\ pc' = "collect") => terrain' = terrain
       /\ (pc = "collect" /\ ~Collected) =>
            /\ terrain' = terrain
            /\ last'.bot = idx
            /\ last'.handed = Rot90Cells(terrain, idx)
            /\ LastAsked => Unturned(last'.handed, idx) = Unturned(last.handed, last.bot)
       /\ terrain' # terrain => Collected]_vars

\* A bot other than bot 0 has been handed a grid that being turned has
\* changed, after another bot of the round returned a move that the board
\* would accept: the move is not in the grid handed over.
C30_Witness ==
    /\ pc = "collect"
    /\ LastAsked
    /\ last.bot > 0
    /\ last.handed # terrain
    /\ Unturned(last.handed, last.bot) = terrain
    /\ \E n \in 1 .. Len(moves) :
        /\ moves[n] # None
        /\ moves[n][1] # moves[n][2]
        /\ apply_move(terrain, moves[n]) # terrain

\* The living bots with an index below i.
AliveBelow(i) == {j \in Bots : j < i /\ alive[j]}

\* C31: a bot whose city is sunk is not asked for a move, in whatever round;
\* while a round is collected the bots asked so far are the living ones
\* below the next index, each asked once (one entry of the list each, the
\* last entry from the living bot with the greatest index among them), and
\* the list the round is resolved from has one entry for each living bot,
\* so that not more moves are applied than bots live.
C31_OnlyLivingBotsAct ==
    /\ LastAsked => alive[last.bot]
    /\ pc = "collect" =>
        /\ Len(moves) = Cardinality(AliveBelow(idx))
        /\ idx < NumBots => alive[idx]
        /\ LastAsked =>
            /\ last.bot \in AliveBelow(idx)
            /\ \A j \in AliveBelow(idx) : j <= last.bot
        /\ ~LastAsked => moves = << >>
    /\ Collected =>
        /\ Len(moves) = Cardinality({i \in Bots : alive[i]})
        /\ Len(Candidates) <= Len(moves)

\* In a running match a bot has been asked for its move past a bot whose
\* city is sunk.
C31_Witness ==
    /\ pc = "collect"
    /\ running
    /\ LastAsked
    /\ \E i \in Bots : i < last.bot /\ ~alive[i]
    /\ last.out.ret # None

\* ------------------------------------------------- the loop of a match
\* The loop "while game_board.running: game_board.step()" of run_game, with
\* bots whose every call returns in time or late, without raising: the
\* loop asks running before each step and makes the next step of whatever
\* it is in.
LoopGetMove ==
    /\ GetMove
    /\ last'.call.time # "never"
    /\ last'.call.exc = "no"

LoopNext == Tick \/ LoopGetMove \/ Resolve

LoopSpec == Init /\ [][LoopNext]_vars /\ WF_vars(LoopNext)

\* The match has ended: the caller is outside step and running is false.
Terminal == pc = "idle" /\ ~running

\* C32: from the start, with bots whose calls return, the loop that steps
\* while running comes to the end of the match, and never counts more
\* rounds than the cap.
C32_LoopReachesTerminal == (<>Terminal) /\ [](round_num <= Cap)

\* The loop comes to the end of the match unless an exception leaves step.
LoopEndsUnlessStepRaises ==
    (<>(Terminal \/ pc = "raised")) /\ [](round_num <= Cap)

\* ------------------------------------- flood and its module-level buffers
\* The base array of _FLOOD_TEMP_B: the board with one cell of padding on
\* every side.  _FLOOD_TEMP_BX, the window [1, 1], is its inside.
Padded == (0 .. (BOARD_SIZE + 1)) \X (0 .. (BOARD_SIZE + 1))

Inside(q) == in_bounds(<<q[1] - 1, q[2] - 1>>)

\* _FLOOD_TEMP_A and the base array of _FLOOD_TEMP_B as the module creates
\* them: np.ones.
FLOOD_TEMP ==
    [A |-> [p \in Pos |-> TRUE], B |-> [q \in Padded |-> TRUE]]

\* np.less(terrain, round_num * SINK_RATE, out=_FLOOD_TEMP_A)
less_out(cells, round) == [p \in Pos |-> Below(cells[p], round)]

\* np.signbit(terrain, out=_FLOOD_TEMP_BX): the inside is overwritten, the
\* padding is no part of the window.
signbit_out(B, cells) ==
    [q \in Padded |->
        IF Inside(q) THEN cells[<<q[1] - 1, q[2] - 1>>] < 0 ELSE B[q]]

\* np.any(_FLOOD_TEMP_B, axis=(0, 1), out=_FLOOD_TEMP_BX): window [a, b] is
\* the base array shifted by (a, b); the output overlaps the input, and
\* numpy reduces from a copy of the input then.
any_out(B) ==
    [q \in Padded |->
        IF Inside(q)
        THEN \E a \in 0 .. 2, b \in 0 .. 2 : B[<<q[1] - 1 + a, q[2] - 1 + b>>]
        ELSE B[q]]

\* np.logical_and(_FLOOD_TEMP_A, _FLOOD_TEMP_BX, out=_FLOOD_TEMP_A)
logical_and_out(A, B) == [p \in Pos |-> A[p] /\ B[<<p[1] + 1, p[2] + 1>>]]

\* A mutant of flood_call: np.less is left out, _FLOOD_TEMP_A is used as the
\* call before left it, and-ed with the comparison.
flood_call_stale(cells, round, temp) ==
    LET marked == any_out(signbit_out(temp.B, cells))
        mask == [p \in Pos |->
                    temp.A[p] /\ logical_and_out(less_out(cells, round), marked)[p]]
    IN [ret |-> [p \in Pos |-> IF mask[p] THEN -1 ELSE cells[p]],
        arg |-> cells,
        temp |-> [A |-> mask, B |-> marked]]

\* One call of flood on the buffers as an earlier call left them: the grid
\* returned, the caller's grid after the call (flood works on the copy
\* np.array makes), the buffers after the call.
flood_call(cells, round, temp) ==
    LET marked == any_out(signbit_out(temp.B, cells))
        mask == logical_and_out(less_out(cells, round), marked)
    IN [ret |-> [p \in Pos |-> IF mask[p] THEN -1 ELSE cells[p]],
        arg |-> cells,
        temp |-> [A |-> mask, B |-> marked]]

\* Round 0 and the rounds in which the water passes a height: between two
\* of them flood's comparison gives the same for every cell.
LevelRounds == {r \in Rounds : r = 0 \/ r % SinkDen = 1}

\* Calls of flood one after the other in one process: probe.grid and
\* probe.out.round are the arguments of the calls watched, probe.out.rets
\* what these calls have returned, probe.out.kept whether every call has
\* left its argument as it was.
FloodInit ==
    /\ BoardInit
    /\ probe \in {[op |-> "flood", grid |-> g, move |-> None,
                   out |-> [round |-> r, rets |-> {}, kept |-> TRUE,
                            temp |-> FLOOD_TEMP]] :
                    g \in ProbeGrids, r \in LevelRounds}
    /\ run = NoRun

\* flood(probe.grid, probe.out.round)
FloodWatched ==
    /\ \E c \in {flood_call(probe.grid, probe.out.round, probe.out.temp)} :
        probe' = [probe EXCEPT
                    !.out.rets = @ \cup {c.ret},
                    !.out.kept = (@ /\ c.arg = probe.grid),
                    !.out.temp = c.temp]
    /\ UNCHANGED <<board_vars, run>>

\* flood(g, r), any grid and round.  (Calls that leave the same buffers and
\* treat their argument alike are one choice.)
FloodOther ==
    /\ \E o \in {LET c == flood_call(g, r, probe.out.temp)
                 IN [temp |-> c.temp, kept |-> c.arg = g] :
                    g \in ProbeGrids, r \in Rounds} :
        probe' = [probe EXCEPT
                    !.out.kept = (@ /\ o.kept),
                    !.out.temp = o.temp]
    /\ UNCHANGED <<board_vars, run>>

FloodNext == FloodWatched \/ FloodOther

FloodSpec == FloodInit /\ [][FloodNext]_vars

\* C33: no call of flood changes the grid it is given; all the calls with
\* the same grid and round return the same grid, whatever calls were made
\* before and in between; the padding of the base array of _FLOOD_TEMP_B
\* stays all true.
C33_FloodIsPure ==
    /\ probe.out.kept
    /\ Cardinality(probe.out.rets) <= 1
    /\ \A q \in Padded : ~Inside(q) => probe.out.temp.B[q]

\* What a call on buffers that earlier calls have used returns is what the
\* board's flood computes.
FloodOnUsedBuffers ==
    \A g \in probe.out.rets : g = flood(probe.grid, probe.out.round)

\* flood has been called on a grid it sinks cells of, with buffers that an
\* earlier call on a grid with other sunk cells has left.
C33_Witness ==
    /\ probe.out.rets # {}
    /\ probe.grid \notin probe.out.rets
    /\ probe.out.temp.B # any_out(signbit_out(FLOOD_TEMP.B, probe.grid))

\* The number of sides of the board a cell lies on.
Sides(p) ==
    (IF p[1] \in {0, BOARD_SIZE - 1} THEN 1 ELSE 0)
        + (IF p[2] \in {0, BOARD_SIZE - 1} THEN 1 ELSE 0)

\* C34: for a cell of the board, nearby(pos) is the set of the cells of the
\* board at distance 1 from pos, rows and columns taken alike (8 cells
\* inside the board, 5 on a side, 3 in a corner); pos is not in it, no cell
\* outside the board is, and pos is in nearby(q) for every q of it.
C34_NearbyIsTheNeighbours ==
    probe.op = "nearby" =>
        LET pos == probe.move[1]
        IN /\ probe.out = {q \in Pos : Neighbours(pos, q)}
           /\ Cardinality(probe.out) =
                (CASE Sides(pos) = 0 -> 8 [] Sides(pos) = 1 -> 5 [] OTHER -> 3)
           /\ pos \notin probe.out
           /\ \A q \in probe.out : in_bounds(q) /\ pos \in nearby(q)

\* nearby has been called on a corner of the board.
C34_Witness ==
    /\ probe.op = "nearby"
    /\ Sides(probe.move[1]) = 2
    /\ Cardinality(probe.out) = 3

C36_AliveIffUnscored ==
    (pc = "idle" /\ running /\ round_num > 0) =>
        \A i \in Bots : (scores[i] = -1) <=> (terrain[CITIES[i]] # -1)

\* A step has left the match running with one city sunk and its round
\* recorded.
C36_Witness ==
    /\ pc = "idle"
    /\ running
    /\ \E i \in Bots : terrain[CITIES[i]] = -1 /\ scores[i] = round_num - 1

\* C37: in every state of a match every sunk cell is reached by the water
\* around the board through sunk cells that touch by a side or a corner; a
\* cell that a step sinks lies on the border or touched a cell sunk before
\* that step.
C37_NoLandlockedSunkCell ==
    /\ [](SeaConnected(terrain))
    /\ [][\A p \in Pos :
            (terrain[p] # -1 /\ terrain'[p] = -1) =>
                \/ Ring(p) = 0
                \/ \E q \in Pos : q # p /\ Touch(p, q) /\ terrain[q] = -1]_vars

\* A city is sunk, away from the border, while a cell of the border still
\* stands.
C37_Witness ==
    /\ \E c \in CitySet : terrain[c] = -1 /\ Ring(c) > 0
    /\ \E p \in Pos : Ring(p) = 0 /\ terrain[p] # -1

\* C38: the flood of no round sinks a cell that holds the highest level
\* when it runs, in whatever order the round's moves were applied.
C38_HighestLevelNeverSinks ==
    Collected =>
        \A ms \in ShuffledCandidates :
            LET moved == apply_moves(terrain, ms)
            IN \A p \in Pos :
                moved[p] = MaxHeight => flood(moved, round_num)[p] = MaxHeight

\* The same for the rounds below the cap, the rounds of a match that is
\* stepped while running only.
HighestLevelStandsBelowCap ==
    (Collected /\ round_num < Cap) =>
        \A ms \in ShuffledCandidates :
            LET moved == apply_moves(terrain, ms)
            IN \A p \in Pos :
                moved[p] = MaxHeight => flood(moved, round_num)[p] = MaxHeight

C40_FirstCandidateApplied ==
    Collected =>
        \A ms \in ShuffledCandidates :
            Len(ms) > 0 =>
                /\ Rechecked(ms, 1)
                /\ GridAfter(ms, 1) = apply_move_unchecked(terrain, ms[1])

\* The same in a match in which no bot has written to the grid it was
\* handed.
FirstCandidateAppliedUntampered ==
    (Collected /\ ~tampered) =>
        \A ms \in ShuffledCandidates :
            Len(ms) > 0 =>
                /\ Rechecked(ms, 1)
                /\ GridAfter(ms, 1) = apply_move_unchecked(terrain, ms[1])

====
